---------------------------- MODULE Spec2Model ----------------------------
(***************************************************************************)
(* ES_MOO validation helpers (src/func.py): the categorizer                *)
(* sep_midpoints_endpoints, impact_categories, the aggregator              *)
(* impact_computation and the comparator comparison, as operators over     *)
(* tables, and a state machine whose actions are calls of these functions  *)
(* on the caller's tables R_constr, R_use, df_bw_mid and df_bw_end.        *)
(*                                                                         *)
(* A table (pandas DataFrame) is a sequence of rows; a row is a record     *)
(*   [idx, ES_name, cat, unit, value]                                      *)
(* where idx is the row's index label, cat the "Impact category" column    *)
(* and unit the "CF unit" column.  A "CF unit" text is a sequence of       *)
(* one-character strings so that str.contains can be computed on it.       *)
(* Numbers are exact rationals <<numerator, denominator>>: float rounding  *)
(* is not modelled, the float values inf and nan are.                      *)
(***************************************************************************)
EXTENDS Integers, Sequences, FiniteSets, TLC

VARIABLES R_constr, R_use, df_bw_mid, df_bw_end, call, ret

vars == <<R_constr, R_use, df_bw_mid, df_bw_end, call, ret>>

(***************************************************************************)
(* Bounds of the model.                                                    *)
(***************************************************************************)
\* rows per input table
MaxRows == 2

\* decimal exponents format_4e looks through: -MaxExp10 .. MaxExp10
MaxExp10 == 3

(***************************************************************************)
(* Texts of the "CF unit" column and the two endpoint markers.             *)
(***************************************************************************)
marker_EQ == <<"P", "D", "F", ".", "m", "2", ".", "y", "r">>

marker_HH == <<"D", "A", "L", "Y">>

\* a midpoint unit: carries no marker
unit_kg == <<"k", "g">>

\* an endpoint unit that is not one of the two marker texts themselves
unit_DALY_per_kg == <<"D", "A", "L", "Y", "/", "k", "g">>

\* a unit that holds "PDF.m2.yr" as a regular expression, not as a substring
unit_PDF_spaced == <<"P", "D", "F", " ", "m", "2", " ", "y", "r">>

\* re: one pattern character against one text character; "." is the wildcard
\* (any character but a line break), every other character of the two
\* markers is an ordinary one
re_char_match(p, c) == IF p = "." THEN c # "\n" ELSE p = c

\* Series.str.contains(pat) with its defaults (regex=True, case=True):
\* re.search(pat, text) finds a match at some position
str_contains(text, pat) ==
    \E i \in 1..(Len(text) - Len(pat) + 1) :
        \A j \in 1..Len(pat) : re_char_match(pat[j], text[i + j - 1])

\* pat occurs in text character for character (a literal substring)
literal_substring(text, pat) ==
    \E i \in 1..(Len(text) - Len(pat) + 1) :
        \A j \in 1..Len(pat) : pat[j] = text[i + j - 1]

(***************************************************************************)
(* DataFrame primitives.                                                   *)
(***************************************************************************)
Range(s) == {s[i] : i \in 1..Len(s)}

\* df[mask]: boolean-mask selection keeps the rows at the masked positions
RECURSIVE mask_select(_, _)
mask_select(df, mask) ==
    IF df = <<>> THEN <<>>
    ELSE (IF mask[1] THEN <<Head(df)>> ELSE <<>>)
         \o mask_select(Tail(df), Tail(mask))

\* df[mask].index: the index labels of the selected rows
index_of(df) == {df[i].idx : i \in 1..Len(df)}

\* df.drop(labels): removes EVERY row whose index label is among labels
RECURSIVE drop(_, _)
drop(df, labels) ==
    IF df = <<>> THEN <<>>
    ELSE (IF Head(df).idx \in labels THEN <<>> ELSE <<Head(df)>>)
         \o drop(Tail(df), labels)

\* the mask of lines 17-18: the unit contains "PDF.m2.yr" or contains "DALY"
endpoint_mask(df) ==
    [i \in 1..Len(df) |->
        str_contains(df[i].unit, marker_EQ) \/ str_contains(df[i].unit, marker_HH)]

\* the mask of lines 19-20: the unit contains neither marker
midpoint_mask(df) ==
    [i \in 1..Len(df) |->
        ~str_contains(df[i].unit, marker_EQ) /\ ~str_contains(df[i].unit, marker_HH)]

\* a binding to the object src itself: no copy is made
copy_alias(src, fresh) == src

\* R.copy(deep = True): the name on the left is bound to a fresh object, not
\* to the object src that was copied
copy_deep(src, fresh) == fresh

\* lines 13-20 for one input table R.  heap maps each DataFrame object to its
\* rows: "in" is the caller's table, "mid" and "end" are the objects the two
\* copies allocate (holding R's rows); drop(..., inplace=True) rewrites the
\* object its receiver names.  The result gives the rows of the caller's
\* table after the call and the two tables returned.
sep_table(R) ==
    LET heap0 == [o \in {"in", "mid", "end"} |-> R]
        midpoint == copy_deep("in", "mid")
        endpoint == copy_deep("in", "end")
        heap1 == [heap0 EXCEPT ![midpoint] =
                     drop(@, index_of(mask_select(@, endpoint_mask(@))))]
        heap2 == [heap1 EXCEPT ![endpoint] =
                     drop(@, index_of(mask_select(@, midpoint_mask(@))))]
    IN  [input |-> heap2["in"], mid |-> heap2[midpoint], end |-> heap2[endpoint]]

\* line 21, from what lines 13-20 made of each input table
sep_result(c, u) ==
    [R_constr_mid |-> c.mid, R_use_mid |-> u.mid,
     R_constr_end |-> c.end, R_use_end |-> u.end,
     R_constr |-> c.input, R_use |-> u.input]

\* sep_midpoints_endpoints(R_constr, R_use): the four tables returned, and
\* the callers' two tables as the call leaves them
sep_midpoints_endpoints(Rc, Ru) == sep_result(sep_table(Rc), sep_table(Ru))

\* line 21: the tuple returned
returned(s) ==
    [R_constr_mid |-> s.R_constr_mid, R_use_mid |-> s.R_use_mid,
     R_constr_end |-> s.R_constr_end, R_use_end |-> s.R_use_end]

(***************************************************************************)
(* impact_categories                                                       *)
(***************************************************************************)
\* Series.unique(): the distinct values in order of first appearance
RECURSIVE unique(_)
unique(s) ==
    IF s = <<>> THEN <<>>
    ELSE LET init == unique(SubSeq(s, 1, Len(s) - 1))
             last == s[Len(s)]
         IN  IF last \in Range(init) THEN init ELSE Append(init, last)

column_cat(df) == [i \in 1..Len(df) |-> df[i].cat]

\* df[df["CF unit"] == text]: the rows whose unit IS text
unit_equals(df, text) == mask_select(df, [i \in 1..Len(df) |-> df[i].unit = text])

\* lines 32-36 on the tables s that line 30 obtained
categories_of(s) ==
    [midpoint_categories |-> unique(column_cat(s.R_use_mid)),
     endpoint_categories_HH |-> unique(column_cat(unit_equals(s.R_use_end, marker_HH))),
     endpoint_categories_EQ |-> unique(column_cat(unit_equals(s.R_use_end, marker_EQ)))]

impact_categories(Rc, Ru) == categories_of(sep_midpoints_endpoints(Rc, Ru))

(***************************************************************************)
(* Numbers.  A finite float is the exact rational <<n, d>> with d > 0 in   *)
(* lowest terms.                                                           *)
(***************************************************************************)
abs(n) == IF n < 0 THEN -n ELSE n

RECURSIVE gcd(_, _)
gcd(a, b) == IF b = 0 THEN a ELSE gcd(b, a % b)

\* n / d for d > 0
reduce(n, d, g) == <<n \div g, d \div g>>

\* n / d for d # 0
rat(n, d) == IF d < 0 THEN reduce(-n, -d, gcd(abs(n), abs(d)))
             ELSE reduce(n, d, gcd(abs(n), abs(d)))

rat_add(a, b) == rat(a[1] * b[2] + b[1] * a[2], a[2] * b[2])

rat_sub(a, b) == rat(a[1] * b[2] - b[1] * a[2], a[2] * b[2])

rat_mul(a, b) == rat(a[1] * b[1], a[2] * b[2])

\* a / b for b # 0
rat_div(a, b) == rat(a[1] * b[2], a[2] * b[1])

RECURSIVE pow10(_)
pow10(k) == IF k = 0 THEN 1 ELSE 10 * pow10(k - 1)

\* whether 10^k <= a < 10^(k+1), for a rational a > 0
has_exponent(a, k) ==
    IF k >= 0 THEN a[1] >= pow10(k) * a[2] /\ a[1] < pow10(k + 1) * a[2]
    ELSE a[1] * pow10(-k) >= a[2] /\ a[1] * pow10(-k - 1) < a[2]

\* round-half-even of n / d >= 0 to an integer
round_half_even(n, d) ==
    IF 2 * (n % d) < d THEN n \div d
    ELSE IF 2 * (n % d) > d THEN (n \div d) + 1
    ELSE IF (n \div d) % 2 = 0 THEN n \div d
    ELSE (n \div d) + 1

\* the five significant digits of a > 0 whose decimal exponent is e
digits(a, e) ==
    IF e <= 4 THEN round_half_even(a[1] * pow10(4 - e), a[2])
    ELSE round_half_even(a[1], a[2] * pow10(e - 4))

\* digits that rounded up to 100000 are 1.0000 of the next exponent
normalized(sign, m, e) == IF m = 100000 THEN <<sign, 10000, e + 1>> ELSE <<sign, m, e>>

scientific(sign, a, e) == normalized(sign, digits(a, e), e)

\* '%.4e' % Decimal(x): sign, five significant digits and the decimal
\* exponent, <<sign, digits, exponent>> standing for  d.dddde+xx
format_4e(x) ==
    IF x[1] = 0 THEN <<1, 0, 0>>
    ELSE scientific(IF x[1] < 0 THEN -1 ELSE 1, <<abs(x[1]), x[2]>>,
                    CHOOSE k \in -MaxExp10..MaxExp10 : has_exponent(<<abs(x[1]), x[2]>>, k))

\* Series.sum() of the "value" column
RECURSIVE value_sum(_)
value_sum(df) == IF df = <<>> THEN 0 ELSE Head(df).value + value_sum(Tail(df))

(***************************************************************************)
(* impact_computation                                                      *)
(***************************************************************************)
\* an outcome of a call: a value returned, or the exception raised
raised(exc) == [kind |-> "error", exc |-> exc]

\* df[(df.ES_name == tech) & (df["CF unit"].str.contains(pat))]
select_tech_unit(df, tech, pat) ==
    mask_select(df, [i \in 1..Len(df) |->
                        df[i].ES_name = tech /\ str_contains(df[i].unit, pat)])

\* df[(df.ES_name == tech) & (df["Impact category"] == impact)]
select_tech_impact(df, tech, impact) ==
    mask_select(df, [i \in 1..Len(df) |-> df[i].ES_name = tech /\ df[i].cat = impact])

\* df[(df["Impact category"] == impact)]
select_impact(df, impact) ==
    mask_select(df, [i \in 1..Len(df) |-> df[i].cat = impact])

\* float(series) is defined for a series of exactly one element and is a
\* TypeError for any other length
is_scalar(series) == Len(series) = 1

\* lines 60 and 63: (float(rows.value.sum()) / conversion_factor) * use_value
use_phase(rows, conversion_factor, use_value) ==
    rat_mul(rat_div(<<value_sum(rows), 1>>, <<conversion_factor, 1>>), <<use_value, 1>>)

\* lines 66 and 69: float(rows.value.sum()) * capacity_factor
constr_phase(rows, capacity_factor) ==
    rat_mul(<<value_sum(rows), 1>>, <<capacity_factor, 1>>)

\* the totals in the order [HH total, EQ total]
aop_totals_swapped(tech, conversion_factor, capacity_factor, use_value, R_constr_end, R_use_end) ==
    <<rat_add(constr_phase(select_tech_unit(R_constr_end, tech, marker_HH), capacity_factor),
              use_phase(select_tech_unit(R_use_end, tech, marker_HH),
                        conversion_factor, use_value)),
      rat_add(constr_phase(select_tech_unit(R_constr_end, tech, marker_EQ), capacity_factor),
              use_phase(select_tech_unit(R_use_end, tech, marker_EQ),
                        conversion_factor, use_value))>>

\* lines 58-75: [EQ total, HH total]
aop_totals(tech, conversion_factor, capacity_factor, use_value, R_constr_end, R_use_end) ==
    <<rat_add(constr_phase(select_tech_unit(R_constr_end, tech, marker_EQ), capacity_factor),
              use_phase(select_tech_unit(R_use_end, tech, marker_EQ),
                        conversion_factor, use_value)),
      rat_add(constr_phase(select_tech_unit(R_constr_end, tech, marker_HH), capacity_factor),
              use_phase(select_tech_unit(R_use_end, tech, marker_HH),
                        conversion_factor, use_value))>>

\* lines 71-75 on the totals t
aop_result(format, t) ==
    IF format = "clean"
    THEN [kind |-> "texts",
          v |-> << <<"Ecosystem quality", format_4e(t[1]), marker_EQ>>,
                   <<"Human health", format_4e(t[2]), marker_HH>> >>]
    ELSE [kind |-> "list", v |-> t]

\* lines 94-98 on use + constr
level_result(impact, format, unit, total) ==
    IF format = "clean" THEN [kind |-> "text", v |-> <<impact, format_4e(total), unit>>]
    ELSE IF format = "number" THEN [kind |-> "float", v |-> total]
    ELSE [kind |-> "None"]

\* lines 85-98 on the tables df_constr and df_use of the chosen level
level_total(tech, impact, conversion_factor, capacity_factor, use_value, format, df_constr, df_use) ==
    IF select_impact(df_constr, impact) = <<>> THEN raised("IndexError")
    ELSE IF ~is_scalar(select_tech_impact(df_constr, tech, impact)) THEN raised("TypeError")
    ELSE IF ~is_scalar(select_tech_impact(df_use, tech, impact)) THEN raised("TypeError")
    ELSE level_result(impact, format, select_impact(df_constr, impact)[1].unit,
             rat_add(use_phase(select_tech_impact(df_use, tech, impact),
                               conversion_factor, use_value),
                     constr_phase(select_tech_impact(df_constr, tech, impact),
                                  capacity_factor)))

\* lines 58-98 on the tables s that line 56 obtained: the value returned or
\* the exception raised.  The aop branch with a format that is neither
\* "clean" nor "number" falls through to line 85, where df_constr is unbound.
impact_outcome(tech, impact, conversion_factor, capacity_factor, use_value, indicator, format, s) ==
    IF indicator = "aop" /\ format \in {"clean", "number"}
    THEN aop_result(format, aop_totals(tech, conversion_factor, capacity_factor, use_value,
                                       s.R_constr_end, s.R_use_end))
    ELSE IF indicator = "midpoint"
    THEN level_total(tech, impact, conversion_factor, capacity_factor, use_value, format,
                     s.R_constr_mid, s.R_use_mid)
    ELSE IF indicator = "endpoint"
    THEN level_total(tech, impact, conversion_factor, capacity_factor, use_value, format,
                     s.R_constr_end, s.R_use_end)
    ELSE raised("UnboundLocalError")

impact_computation(tech, impact, conversion_factor, capacity_factor, use_value, indicator, format, Rc, Ru) ==
    impact_outcome(tech, impact, conversion_factor, capacity_factor, use_value, indicator,
                   format, sep_midpoints_endpoints(Rc, Ru))

(***************************************************************************)
(* comparison                                                              *)
(***************************************************************************)
method_endpoint_EQ == "IMPACT World+ Damage 2.0 | Ecosystem quality | "

method_endpoint_HH == "IMPACT World+ Damage 2.0 | Human health | "

method_midpoint == "IMPACT World+ Midpoint 2.0 | Midpoint | "

\* a float: finite, or one of the values a division by zero yields
float_num(x) == [kind |-> "num", v |-> x]

\* a / b on float64 columns: x/0 is inf with the sign of x, 0/0 is nan
float_div(a, b) ==
    IF b[1] # 0 THEN float_num(rat_div(a, b))
    ELSE IF a[1] = 0 THEN [kind |-> "nan"]
    ELSE [kind |-> "inf", sign |-> IF a[1] < 0 THEN -1 ELSE 1]

\* series.iloc[0]
iloc0(series) == series[1]

\* lines 131-135: the sum of the first entries of the columns method + impact
RECURSIVE brightway_sum(_, _, _)
brightway_sum(categories, method, df_bw) ==
    IF categories = <<>> THEN <<0, 1>>
    ELSE rat_add(brightway_sum(SubSeq(categories, 1, Len(categories) - 1), method, df_bw),
                 <<iloc0(df_bw[method \o categories[Len(categories)]]), 1>>)

\* the columns a pass over categories reads are all in df_bw (else KeyError)
has_columns(categories, method, df_bw) ==
    \A i \in 1..Len(categories) : (method \o categories[i]) \in DOMAIN df_bw

\* pd.DataFrame(data = ..., index = ..., columns = ...): data row by row
DataFrame(data, index, columns) == [index |-> index, columns |-> columns, data |-> data]

\* res.T
transpose(res) ==
    [index |-> res.columns, columns |-> res.index,
     data |-> [i \in 1..Len(res.columns) |->
                  [j \in 1..Len(res.index) |-> res.data[j][i]]]]

\* res.<name>: the column called name, one entry per row
column(res, name) ==
    [i \in 1..Len(res.index) |->
        res.data[i][CHOOSE k \in 1..Len(res.columns) : res.columns[k] = name]]

\* the difference taken the other way round: (es_moo - brightway) / brightway
delta_swapped(brightway, es_moo) == float_div(rat_sub(es_moo, brightway), brightway)

\* line 163: (res.brightway - res.es_moo) / res.brightway, row by row
delta(brightway, es_moo) == float_div(rat_sub(brightway, es_moo), brightway)

\* res["delta"] = col
set_delta(res, col) ==
    [index |-> res.index, columns |-> Append(res.columns, "delta"),
     data |-> [i \in 1..Len(res.index) |-> Append(res.data[i], col[i])]]

\* line 163 on the transposed table res
add_delta(res) ==
    set_delta(res, [i \in 1..Len(res.index) |->
                       delta(column(res, "brightway")[i], column(res, "es_moo")[i])])

\* lines 161-165
with_delta(res) == [kind |-> "table", df |-> add_delta(transpose(res))]

\* the second part of lines 143-145, 151-153 and 155-157: es_moo.append(...)
\* of what impact_computation yields, category after category
RECURSIVE computed(_, _)
computed(categories, a) ==
    IF categories = <<>> THEN <<>>
    ELSE Append(computed(SubSeq(categories, 1, Len(categories) - 1), a),
                impact_computation(a.tech, categories[Len(categories)], a.conversion_factor,
                                   a.capacity_factor, a.use_value, a.indicator, "number",
                                   a.R_constr, a.R_use))

\* df_bw[method + impact].iloc[0], or KeyError
lookup(column_name, df_bw) ==
    IF column_name \in DOMAIN df_bw
    THEN [kind |-> "float", v |-> <<iloc0(df_bw[column_name]), 1>>]
    ELSE raised("KeyError")

\* the first part: brightway.append(df_bw[method + impact].iloc[0]), category
\* after category
RECURSIVE looked_up(_, _, _)
looked_up(categories, methods, df_bw) ==
    IF categories = <<>> THEN <<>>
    ELSE Append(looked_up(SubSeq(categories, 1, Len(categories) - 1), methods, df_bw),
                lookup(methods[Len(categories)] \o categories[Len(categories)], df_bw))

\* the iterations that raise: in iteration i the lookup comes first
failures(brightway, es_moo) ==
    {i \in 1..Len(brightway) : brightway[i].kind = "error" \/ es_moo[i].kind = "error"}

first_failure(brightway, es_moo, i) ==
    IF brightway[i].kind = "error" THEN brightway[i] ELSE es_moo[i]

\* lines 141-147 and 149-159 over the categories in loop order: the first
\* exception ends the call; else the table of line 147 or 159, with delta
table_of(categories, brightway, es_moo) ==
    IF failures(brightway, es_moo) # {}
    THEN first_failure(brightway, es_moo,
             CHOOSE i \in failures(brightway, es_moo) :
                 \A k \in failures(brightway, es_moo) : i <= k)
    ELSE with_delta(DataFrame(<<[i \in 1..Len(categories) |-> es_moo[i].v],
                                [i \in 1..Len(categories) |-> brightway[i].v]>>,
                              <<"es_moo", "brightway">>, categories))

\* lines 141-147
comparison_midpoint(a, cats, df_bw) ==
    table_of(cats.midpoint_categories,
             looked_up(cats.midpoint_categories,
                       [i \in 1..Len(cats.midpoint_categories) |-> method_midpoint], df_bw),
             computed(cats.midpoint_categories, a))

\* the method of each column of line 159: Human health first
endpoint_methods(cats) ==
    [i \in 1..Len(cats.endpoint_categories_HH) |-> method_endpoint_HH]
    \o [i \in 1..Len(cats.endpoint_categories_EQ) |-> method_endpoint_EQ]

\* the columns with Ecosystem quality first
endpoint_columns_swapped(cats) == cats.endpoint_categories_EQ \o cats.endpoint_categories_HH

\* the columns of line 159
endpoint_columns(cats) == cats.endpoint_categories_HH \o cats.endpoint_categories_EQ

\* lines 149-159
comparison_endpoint(a, cats, df_bw) ==
    table_of(endpoint_columns(cats),
             looked_up(cats.endpoint_categories_HH \o cats.endpoint_categories_EQ,
                       endpoint_methods(cats), df_bw),
             computed(cats.endpoint_categories_HH \o cats.endpoint_categories_EQ, a))

\* the list unpacked as if it were [HH, EQ]
unpack_swapped(r) == [HH_ES_moo |-> r.v[1], EQ_ES_moo |-> r.v[2]]

\* line 137: EQ_ES_moo, HH_ES_moo = impact_computation(...), as [EQ, HH]
unpack(r) == [EQ_ES_moo |-> r.v[1], HH_ES_moo |-> r.v[2]]

\* line 139
aop_frame(e, HH_brightway, EQ_brightway) ==
    DataFrame(<< <<e.HH_ES_moo, e.EQ_ES_moo>>, <<HH_brightway, EQ_brightway>> >>,
              <<"es_moo", "brightway">>, <<"Human health", "Ecosystem quality">>)

\* lines 126-139
comparison_aop(a, cats, df_bw) ==
    IF ~has_columns(cats.endpoint_categories_EQ, method_endpoint_EQ, df_bw)
    THEN raised("KeyError")
    ELSE IF ~has_columns(cats.endpoint_categories_HH, method_endpoint_HH, df_bw)
    THEN raised("KeyError")
    ELSE with_delta(aop_frame(
             unpack(impact_computation(a.tech, "None", a.conversion_factor,
                                       a.capacity_factor, a.use_value, a.indicator,
                                       "number", a.R_constr, a.R_use)),
             brightway_sum(cats.endpoint_categories_HH, method_endpoint_HH, df_bw),
             brightway_sum(cats.endpoint_categories_EQ, method_endpoint_EQ, df_bw)))

\* lines 126-165 with the category lists of line 117
comparison_of(a, cats, bw_mid, bw_end) ==
    IF a.indicator = "aop" THEN comparison_aop(a, cats, bw_end)
    ELSE IF a.indicator = "midpoint" THEN comparison_midpoint(a, cats, bw_mid)
    ELSE IF a.indicator = "endpoint" THEN comparison_endpoint(a, cats, bw_end)
    ELSE raised("UnboundLocalError")

comparison(tech, conversion_factor, capacity_factor, use_value, indicator, bw_mid, bw_end, Rc, Ru) ==
    comparison_of([tech |-> tech, conversion_factor |-> conversion_factor,
                   capacity_factor |-> capacity_factor, use_value |-> use_value,
                   indicator |-> indicator, R_constr |-> Rc, R_use |-> Ru],
                  impact_categories(Rc, Ru), bw_mid, bw_end)

(***************************************************************************)
(* The callers' data and the calls.                                        *)
(***************************************************************************)
Techs == {"PV", "WIND"}

Cats == {"Land", "Water"}

\* the units of well-formed data: one midpoint unit and the two endpoint ones
Units == {unit_kg, marker_HH, marker_EQ}

\* with the units that only contain a marker
AllUnits == Units \cup {unit_DALY_per_kg, unit_PDF_spaced}

Indicators == {"midpoint", "endpoint", "aop", "other"}

Formats == {"clean", "number", "other"}

\* <<conversion_factor, capacity_factor, use_value>>
Factors == {<<2, 3, 5>>}

\* the index labels of n rows.  A RangeIndex labels them 0, 1, ..., n-1; with
\* dup, also every labelling that repeats labels (up to renaming: label 0
\* first, each later row repeats a label or takes the next one)
IndexLabels(n, dup) ==
    {lab \in [1..n -> 0..(n - 1)] :
        IF dup
        THEN \A i \in 1..n : lab[i] = 0 \/ \E j \in 1..(i - 1) : lab[j] = lab[i] - 1
        ELSE \A i \in 1..n : lab[i] = i - 1}

\* the tables of at most MaxRows rows whose <<ES_name, cat, unit>> are drawn
\* from keys; the value of the row at position i is 2^(i-1), so that a sum
\* of values tells which rows were summed
Tables(keys, dup) ==
    UNION {
        {[i \in 1..n |-> [idx |-> lab[i], ES_name |-> k[i][1], cat |-> k[i][2],
                          unit |-> k[i][3], value |-> 2 ^ (i - 1)]] :
            k \in [1..n -> keys], lab \in IndexLabels(n, dup)} :
        n \in 0..MaxRows}

KeysOf(df) == {<<df[i].ES_name, df[i].cat, df[i].unit>> : i \in 1..Len(df)}

\* the reference tables: a column per method and category, two entries each.
\* The first entries differ from column to column and are 0 in one column
\* of each method.
BwMid ==
    (method_midpoint \o "Land" :> <<0, 9>>) @@ (method_midpoint \o "Water" :> <<3, 9>>)

BwEnd ==
    (method_endpoint_HH \o "Land" :> <<0, 9>>) @@ (method_endpoint_HH \o "Water" :> <<5, 9>>)
    @@ (method_endpoint_EQ \o "Land" :> <<7, 9>>) @@ (method_endpoint_EQ \o "Water" :> <<0, 9>>)

\* a reference table that lacks the columns of "Water"
BwEndShort ==
    (method_endpoint_HH \o "Land" :> <<4, 9>>) @@ (method_endpoint_EQ \o "Land" :> <<6, 9>>)

\* the use table is any table over keys; the construction table is any table
\* over the <<ES_name, cat, unit>> triples the use table lists
InitTables(keys, dup) ==
    /\ R_use \in Tables(keys, dup)
    /\ R_constr \in Tables(KeysOf(R_use), dup)
    /\ call = [fn |-> "none"]
    /\ ret = [kind |-> "none"]

Init ==
    /\ InitTables(Techs \X Cats \X (Units \cup {unit_DALY_per_kg}), FALSE)
    /\ df_bw_mid = BwMid
    /\ df_bw_end \in {BwEnd, BwEndShort}

InitSep ==
    /\ InitTables(Techs \X Cats \X AllUnits, TRUE)
    /\ df_bw_mid = BwMid
    /\ df_bw_end = BwEnd

InitCore ==
    /\ InitTables(Techs \X {"Land"} \X Units, FALSE)
    /\ df_bw_mid = BwMid
    /\ df_bw_end = BwEnd

InitCmp ==
    /\ InitTables(Techs \X Cats \X Units, FALSE)
    /\ df_bw_mid = BwMid
    /\ df_bw_end = BwEnd

call_sep_midpoints_endpoints ==
    /\ call.fn = "none"
    /\ call' = [fn |-> "sep_midpoints_endpoints"]
    /\ ret' = [kind |-> "tables", v |-> returned(sep_midpoints_endpoints(R_constr, R_use))]
    /\ R_constr' = sep_table(R_constr).input
    /\ R_use' = sep_table(R_use).input
    /\ UNCHANGED <<df_bw_mid, df_bw_end>>

call_impact_categories ==
    /\ call.fn = "none"
    /\ call' = [fn |-> "impact_categories"]
    /\ ret' = [kind |-> "categories", v |-> impact_categories(R_constr, R_use)]
    /\ R_constr' = sep_table(R_constr).input
    /\ R_use' = sep_table(R_use).input
    /\ UNCHANGED <<df_bw_mid, df_bw_end>>

call_impact_computation ==
    \E tech \in Techs, impact \in Cats, f \in Factors,
       indicator \in Indicators, format \in Formats :
        /\ call.fn = "none"
        /\ call' = [fn |-> "impact_computation", tech |-> tech, impact |-> impact,
                    conversion_factor |-> f[1], capacity_factor |-> f[2],
                    use_value |-> f[3], indicator |-> indicator, format |-> format]
        /\ ret' = impact_computation(tech, impact, f[1], f[2], f[3], indicator, format,
                                     R_constr, R_use)
        /\ R_constr' = sep_table(R_constr).input
        /\ R_use' = sep_table(R_use).input
        /\ UNCHANGED <<df_bw_mid, df_bw_end>>

\* a call of comparison with an indicator among indicators
compare(indicators) ==
    \E tech \in Techs, f \in Factors, indicator \in indicators :
        /\ call.fn = "none"
        /\ call' = [fn |-> "comparison", tech |-> tech,
                    conversion_factor |-> f[1], capacity_factor |-> f[2],
                    use_value |-> f[3], indicator |-> indicator]
        /\ ret' = comparison(tech, f[1], f[2], f[3], indicator, df_bw_mid, df_bw_end,
                             R_constr, R_use)
        /\ R_constr' = sep_table(R_constr).input
        /\ R_use' = sep_table(R_use).input
        /\ UNCHANGED <<df_bw_mid, df_bw_end>>

call_comparison == compare(Indicators)

\* a call of comparison with one of the three indicators it knows
call_comparison_known == compare(Indicators \ {"other"})

\* the caller takes the result; it is then free to make the next call
return_to_caller ==
    /\ call.fn # "none"
    /\ call' = [fn |-> "none"]
    /\ ret' = [kind |-> "none"]
    /\ UNCHANGED <<R_constr, R_use, df_bw_mid, df_bw_end>>

Next ==
    \/ return_to_caller
    \/ call_sep_midpoints_endpoints
    \/ call_impact_categories
    \/ call_impact_computation
    \/ call_comparison

NextSep ==
    \/ return_to_caller
    \/ call_sep_midpoints_endpoints
    \/ call_impact_categories

NextCmp ==
    \/ return_to_caller
    \/ call_comparison_known

\* every function, on tables that may carry the units that only contain a
\* marker, and on reference tables that may lack columns
Spec == Init /\ [][Next]_vars

\* the categorizer and impact_categories, on tables of any units and any
\* index labels
SpecSep == InitSep /\ [][NextSep]_vars

\* every function, on well-formed tables of one category
SpecCore == InitCore /\ [][Next]_vars

\* comparison, on well-formed tables
SpecCmp == InitCmp /\ [][NextCmp]_vars

(***************************************************************************)
(* Properties.  In a state with call.fn # "none" the call recorded in call *)
(* has just ended with the outcome ret, and R_constr, R_use, df_bw_mid and *)
(* df_bw_end are the caller's tables after it.                             *)
(***************************************************************************)
\* how many rows of df are the row r
count(df, r) == Cardinality({i \in 1..Len(df) : df[i] = r})

\* the unit of r holds one of the two markers character for character
carries_marker(r) ==
    literal_substring(r.unit, marker_EQ) \/ literal_substring(r.unit, marker_HH)

\* mid and end split R: every row is in exactly one of them, as often as in
\* R, and it is in end exactly when its unit carries a marker
partitions(R, mid, end) ==
    \A r \in Range(R) \cup Range(mid) \cup Range(end) :
        /\ count(mid, r) + count(end, r) = count(R, r)
        /\ carries_marker(r) => count(mid, r) = 0
        /\ ~carries_marker(r) => count(end, r) = 0

\* the entries of the sequence s are pairwise distinct
pairwise_distinct(s) == \A i, j \in 1..Len(s) : s[i] = s[j] => i = j

\* the rows of df of technology tech and category impact
rows_of(df, tech, impact) == SelectSeq(df, LAMBDA r : r.ES_name = tech /\ r.cat = impact)

\* the rows of df of technology tech whose unit carries the marker pat
marked_rows(df, tech, pat) ==
    SelectSeq(df, LAMBDA r : r.ES_name = tech /\ str_contains(r.unit, pat))

\* S_constr * capacity_factor + (S_use / conversion_factor) * use_value
phases(S_constr, S_use, c) ==
    rat_add(<<S_constr * c.capacity_factor, 1>>,
            rat_mul(rat_div(<<S_use, 1>>, <<c.conversion_factor, 1>>), <<c.use_value, 1>>))

\* the sum of the rationals of the sequence s
RECURSIVE rat_sum(_)
rat_sum(s) == IF s = <<>> THEN <<0, 1>> ELSE rat_add(Head(s), rat_sum(Tail(s)))

\* what impact_computation yields now for the factors of the call c
computation(c, impact, indicator) ==
    impact_computation(c.tech, impact, c.conversion_factor, c.capacity_factor, c.use_value,
                       indicator, "number", R_constr, R_use)

\* C1: sep_midpoints_endpoints partitions each input table: every row of a
\* table is in exactly one of the two outputs derived from it, unchanged, and
\* in the endpoint output exactly when its "CF unit" holds "PDF.m2.yr" or
\* "DALY" as a literal substring; also for tables whose index labels repeat.
C1_Partition ==
    call.fn = "sep_midpoints_endpoints" =>
        /\ partitions(R_constr, ret.v.R_constr_mid, ret.v.R_constr_end)
        /\ partitions(R_use, ret.v.R_use_mid, ret.v.R_use_end)

\* C2: for indicator "midpoint" or "endpoint" and format "number",
\* impact_computation returns S_constr * capacity_factor +
\* (S_use / conversion_factor) * use_value, the sums being over all rows of
\* the level's tables of that tech and impact, however many there are.
C2_SumOfPhases ==
    (/\ call.fn = "impact_computation"
     /\ call.indicator \in {"midpoint", "endpoint"}
     /\ call.format = "number") =>
        ret = [kind |-> "float",
               v |-> IF call.indicator = "midpoint"
                     THEN phases(value_sum(rows_of(sep_midpoints_endpoints(R_constr, R_use).R_constr_mid, call.tech, call.impact)),
                                 value_sum(rows_of(sep_midpoints_endpoints(R_constr, R_use).R_use_mid, call.tech, call.impact)),
                                 call)
                     ELSE phases(value_sum(rows_of(sep_midpoints_endpoints(R_constr, R_use).R_constr_end, call.tech, call.impact)),
                                 value_sum(rows_of(sep_midpoints_endpoints(R_constr, R_use).R_use_end, call.tech, call.impact)),
                                 call)]

\* the total of the endpoint rows of call.tech that carry the marker pat
aop_total(pat) ==
    phases(value_sum(marked_rows(sep_midpoints_endpoints(R_constr, R_use).R_constr_end, call.tech, pat)),
           value_sum(marked_rows(sep_midpoints_endpoints(R_constr, R_use).R_use_end, call.tech, pat)),
           call)

\* C3: for indicator "aop" and format "number", impact_computation returns
\* the list [EQ, HH] in that order, each total being (sum over the
\* construction endpoint rows of tech with the marker) * capacity_factor +
\* (sum over the use endpoint rows of tech with the marker) /
\* conversion_factor * use_value; impact plays no part, a phase without rows
\* contributes 0 and midpoint rows contribute nothing.
C3_AopTotals ==
    (/\ call.fn = "impact_computation"
     /\ call.indicator = "aop"
     /\ call.format = "number") =>
        ret = [kind |-> "list", v |-> <<aop_total(marker_EQ), aop_total(marker_HH)>>]

\* an aop call for a technology with a midpoint and an Ecosystem quality row
\* in each table and no Human health row: the first total is the nonzero one
C3_Witness ==
    /\ call.fn = "impact_computation"
    /\ call.indicator = "aop"
    /\ call.format = "number"
    /\ ret.kind = "list"
    /\ ret.v[1][1] > 0
    /\ ret.v[2][1] = 0
    /\ \E i \in 1..Len(R_use) : R_use[i].ES_name = call.tech /\ R_use[i].unit = unit_kg
    /\ \E i \in 1..Len(R_constr) : R_constr[i].ES_name = call.tech /\ R_constr[i].unit = unit_kg

\* a comparison has returned a table
table_returned == call.fn = "comparison" /\ ret.kind = "table"

\* row i of the returned table has the delta (brightway - es_moo) / brightway
delta_exact(i) ==
    /\ column(ret.df, "delta")[i].kind = "num"
    /\ rat_mul(column(ret.df, "delta")[i].v, column(ret.df, "brightway")[i])
           = rat_sub(column(ret.df, "brightway")[i], column(ret.df, "es_moo")[i])

\* row i of the returned table has a delta that is no number: nan when es_moo
\* is 0 too, else an infinity
delta_undefined(i) ==
    /\ column(ret.df, "delta")[i].kind \in {"inf", "nan"}
    /\ column(ret.df, "delta")[i].kind = "nan" <=> column(ret.df, "es_moo")[i][1] = 0

\* C4 as stated: every row of the table returned by comparison, for each of
\* the three indicators, has delta * brightway = brightway - es_moo, also the
\* rows whose brightway value is 0.
C4_DeltaEveryRow ==
    table_returned => \A i \in 1..Len(ret.df.index) : delta_exact(i)

\* C4: in every row of the table returned by comparison whose brightway value
\* is not 0, delta * brightway = brightway - es_moo; in a row whose brightway
\* value is 0 the delta is no number (nan if es_moo is 0 as well, else inf).
C4_DeltaWhereReferenceNonzero ==
    table_returned =>
        \A i \in 1..Len(ret.df.index) :
            IF column(ret.df, "brightway")[i][1] # 0 THEN delta_exact(i)
            ELSE delta_undefined(i)

\* a returned table with a row of nonzero reference and nonzero delta, and a
\* row of reference 0
C4_Witness ==
    /\ table_returned
    /\ \E i \in 1..Len(ret.df.index) :
           /\ column(ret.df, "brightway")[i][1] # 0
           /\ column(ret.df, "delta")[i] # float_num(<<0, 1>>)
    /\ \E i \in 1..Len(ret.df.index) : column(ret.df, "brightway")[i][1] = 0

\* the category list of the call's indicator, out of the lists cats
listed_categories(cats) ==
    IF call.indicator = "midpoint" THEN cats.midpoint_categories
    ELSE cats.endpoint_categories_HH \o cats.endpoint_categories_EQ

\* the reference column that belongs to entry i of the category list
listed_reference(cats, i) ==
    IF call.indicator = "midpoint"
    THEN df_bw_mid[method_midpoint \o cats.midpoint_categories[i]]
    ELSE IF i <= Len(cats.endpoint_categories_HH)
    THEN df_bw_end[method_endpoint_HH \o cats.endpoint_categories_HH[i]]
    ELSE df_bw_end[method_endpoint_EQ
                       \o cats.endpoint_categories_EQ[i - Len(cats.endpoint_categories_HH)]]

\* the rows of the returned table are the entries of the category list of
\* cats, in list order, each with its own value and its own reference
rows_follow(cats) ==
    /\ ret.df.index = listed_categories(cats)
    /\ \A i \in 1..Len(ret.df.index) :
           /\ column(ret.df, "es_moo")[i]
                  = computation(call, ret.df.index[i], call.indicator).v
           /\ column(ret.df, "brightway")[i] = <<listed_reference(cats, i)[1], 1>>

\* the rows of the returned table follow the lists of impact_categories
rows_follow_list == rows_follow(impact_categories(R_constr, R_use))

\* the call is a midpoint or endpoint comparison that returned a table
level_table_returned == table_returned /\ call.indicator \in {"midpoint", "endpoint"}

\* C5 as stated: the midpoint or endpoint table has one row per entry of the
\* category list, in list order (endpoint: Human health categories, then
\* Ecosystem quality ones), each row pairing the value and the reference of
\* its own category, and the row labels are pairwise distinct.
C5_RowsDistinct ==
    level_table_returned => rows_follow_list /\ pairwise_distinct(ret.df.index)

\* C5: the midpoint or endpoint table has one row per entry of the category
\* list, in list order (endpoint: Human health categories, then Ecosystem
\* quality ones), each row pairing the value and the reference of its own
\* category; the labels are pairwise distinct for midpoint, and for endpoint
\* when no category is in both endpoint lists.
C5_RowsFollowCategories ==
    level_table_returned =>
        /\ rows_follow_list
        /\ (\/ call.indicator = "midpoint"
            \/ Range(impact_categories(R_constr, R_use).endpoint_categories_HH)
                   \cap Range(impact_categories(R_constr, R_use).endpoint_categories_EQ) = {})
               => pairwise_distinct(ret.df.index)

\* an endpoint table with a Human health row followed by an Ecosystem quality
\* row of another category, with different values and different references
C5_Witness ==
    /\ level_table_returned
    /\ call.indicator = "endpoint"
    /\ Len(impact_categories(R_constr, R_use).endpoint_categories_HH) = 1
    /\ Len(impact_categories(R_constr, R_use).endpoint_categories_EQ) = 1
    /\ Len(ret.df.index) = 2
    /\ ret.df.index[1] # ret.df.index[2]
    /\ column(ret.df, "es_moo")[1] # column(ret.df, "es_moo")[2]
    /\ column(ret.df, "brightway")[1] # column(ret.df, "brightway")[2]

\* C8: the aop table has exactly the rows "Human health" and "Ecosystem
\* quality"; the Human health row holds the HH total of impact_computation
\* and the sum of the first entries of the Human health reference columns of
\* the endpoint HH list, the Ecosystem quality row the EQ total and the sum
\* over the endpoint EQ list; the two are not swapped.
C8_AopRows ==
    (table_returned /\ call.indicator = "aop") =>
        /\ ret.df.index = <<"Human health", "Ecosystem quality">>
        /\ column(ret.df, "es_moo")
               = <<computation(call, "None", "aop").v[2], computation(call, "None", "aop").v[1]>>
        /\ column(ret.df, "brightway")
               = <<brightway_sum(impact_categories(R_constr, R_use).endpoint_categories_HH,
                                 method_endpoint_HH, df_bw_end),
                   brightway_sum(impact_categories(R_constr, R_use).endpoint_categories_EQ,
                                 method_endpoint_EQ, df_bw_end)>>

\* an aop table whose two rows differ in value and in reference
C8_Witness ==
    /\ table_returned
    /\ call.indicator = "aop"
    /\ column(ret.df, "es_moo")[1] # column(ret.df, "es_moo")[2]
    /\ column(ret.df, "brightway")[1] # column(ret.df, "brightway")[2]
    /\ column(ret.df, "es_moo")[1][1] > 0
    /\ column(ret.df, "es_moo")[2][1] > 0

\* what the call c yields on the tables Rc, Ru, bw_mid and bw_end
result_of(c, Rc, Ru, bw_mid, bw_end) ==
    CASE c.fn = "sep_midpoints_endpoints" ->
             [kind |-> "tables", v |-> returned(sep_midpoints_endpoints(Rc, Ru))]
      [] c.fn = "impact_categories" ->
             [kind |-> "categories", v |-> impact_categories(Rc, Ru)]
      [] c.fn = "impact_computation" ->
             impact_computation(c.tech, c.impact, c.conversion_factor, c.capacity_factor,
                                c.use_value, c.indicator, c.format, Rc, Ru)
      [] c.fn = "comparison" ->
             comparison(c.tech, c.conversion_factor, c.capacity_factor, c.use_value,
                        c.indicator, bw_mid, bw_end, Rc, Ru)

\* C6: no call of sep_midpoints_endpoints, impact_categories,
\* impact_computation or comparison, returning or raising, changes R_constr,
\* R_use, df_bw_mid or df_bw_end, and the same call made again on the tables
\* as they are after the call gives the outcome it gave.
C6_InputsUnchanged ==
    [][/\ R_constr' = R_constr
       /\ R_use' = R_use
       /\ df_bw_mid' = df_bw_mid
       /\ df_bw_end' = df_bw_end
       /\ call'.fn # "none" =>
              ret' = result_of(call', R_constr', R_use', df_bw_mid', df_bw_end')]_vars

\* a call has raised on tables that each hold a midpoint and an endpoint row
C6_Witness ==
    /\ call.fn \in {"impact_computation", "comparison"}
    /\ ret.kind = "error"
    /\ \E i, j \in 1..Len(R_use) : R_use[i].unit = unit_kg /\ R_use[j].unit # unit_kg
    /\ \E i, j \in 1..Len(R_constr) : R_constr[i].unit = unit_kg /\ R_constr[j].unit # unit_kg

\* the categories of the use rows that the categorizer put in the endpoint
\* table and whose unit carries the marker pat
endpoint_categories_with(pat) ==
    {r.cat : r \in {x \in Range(sep_midpoints_endpoints(R_constr, R_use).R_use_end) :
                        str_contains(x.unit, pat)}}

\* C7: every category of a row of R_use is in one of the three lists of
\* impact_categories; a category is in the HH (EQ) list exactly when a use
\* row of it is an endpoint row carrying "DALY" ("PDF.m2.yr"); no list holds
\* a category twice.
C7_CategoriesCoverUse ==
    call.fn = "impact_categories" =>
        /\ \A i \in 1..Len(R_use) :
               R_use[i].cat \in Range(ret.v.midpoint_categories)
                                    \cup Range(ret.v.endpoint_categories_HH)
                                    \cup Range(ret.v.endpoint_categories_EQ)
        /\ Range(ret.v.endpoint_categories_HH) = endpoint_categories_with(marker_HH)
        /\ Range(ret.v.endpoint_categories_EQ) = endpoint_categories_with(marker_EQ)
        /\ pairwise_distinct(ret.v.midpoint_categories)
        /\ pairwise_distinct(ret.v.endpoint_categories_HH)
        /\ pairwise_distinct(ret.v.endpoint_categories_EQ)

\* C9: impact_computation and comparison end in an error, and return
\* nothing, for every indicator other than "midpoint", "endpoint" and "aop",
\* and so does impact_computation for every format other than "clean" and
\* "number", whatever the indicator.
C9_UnsupportedModeRaises ==
    /\ (/\ call.fn \in {"impact_computation", "comparison"}
        /\ call.indicator \notin {"midpoint", "endpoint", "aop"}) => ret.kind = "error"
    /\ (/\ call.fn = "impact_computation"
        /\ call.format \notin {"clean", "number"}) => ret.kind = "error"

\* each (tech, category) pair of a row of either table has exactly one row in
\* R_constr and exactly one row in R_use
one_row_per_pair ==
    \A r \in Range(R_constr) \cup Range(R_use) :
        /\ Len(rows_of(R_constr, r.ES_name, r.cat)) = 1
        /\ Len(rows_of(R_use, r.ES_name, r.cat)) = 1

\* the endpoint results of the call's technology for the categories of list
endpoint_results(list) ==
    [i \in 1..Len(list) |-> computation(call, list[i], "endpoint")]

\* the aop total is the sum of the endpoint results, all of them numbers
sums_to(total, results) ==
    /\ \A i \in 1..Len(results) : results[i].kind = "float"
    /\ total = rat_sum([i \in 1..Len(results) |-> results[i].v])

\* C10: when each (tech, category) pair of either table has exactly one row
\* in each table, the EQ (HH) total of impact_computation for "aop" is the
\* sum of its "endpoint" results over the endpoint EQ (HH) category list of
\* impact_categories, with the same factors and format "number".
C10_AopIsSumOfEndpoints ==
    (/\ call.fn = "impact_computation"
     /\ call.indicator = "aop"
     /\ call.format = "number"
     /\ one_row_per_pair) =>
        /\ ret.kind = "list"
        /\ sums_to(ret.v[1], endpoint_results(
                                 impact_categories(R_constr, R_use).endpoint_categories_EQ))
        /\ sums_to(ret.v[2], endpoint_results(
                                 impact_categories(R_constr, R_use).endpoint_categories_HH))

=============================================================================
